---- MODULE Spec2Model ----
(***************************************************************************)
(* State-machine model of main/wifi_app.c: the WiFi application task       *)
(* (wifi_app_task), the driver event callback (wifi_app_event_handler),    *)
(* the reset button interrupt and worker, and the message queue that ties  *)
(* them together.                                                          *)
(***************************************************************************)
EXTENDS Integers, Sequences, FiniteSets, TLC

\* Retry cap of the fast-path reconnect (wifi_app.h; used at wifi_app.c:145,358).
MAX_CONNECTION_RETRIES == 2

\* Length of the message queue, xQueueCreate(3, ...).
QUEUE_LENGTH == 3

\* Status bits of wifi_app_event_group.
WIFI_APP_CONNECTING_USING_SAVED_CREDS_BIT == "USING_SAVED_CREDS"
WIFI_APP_CONNECTING_FROM_HTTP_SERVER_BIT == "FROM_HTTP_SERVER"
WIFI_APP_STA_CONNECTED_GOT_IP_BIT == "STA_CONNECTED_GOT_IP"

\* Message identifiers carried by the queue.
WIFI_APP_MSG_LOAD_SAVED_CREDENTIALS == "LOAD_SAVED_CREDENTIALS"
WIFI_APP_MSG_START_HTTP_SERVER == "START_HTTP_SERVER"
WIFI_APP_MSG_CONNECTING_FROM_HTTP_SERVER == "CONNECTING_FROM_HTTP_SERVER"
WIFI_APP_MSG_STA_CONNECTED_GOT_IP == "STA_CONNECTED_GOT_IP"
WIFI_APP_MSG_USER_REQUESTED_STA_DISCONNECT == "USER_REQUESTED_STA_DISCONNECT"
WIFI_APP_MSG_STA_DISCONNECTED == "STA_DISCONNECTED"

\* Station credentials: the zeroed configuration and the networks of the scenarios.
NoCreds == "none"
Creds == {"Home", "Office"}
\* Credentials found in the store at boot, and those the configuration service submits.
StoredCreds == {"Home"}
SubmittedCreds == {"Office"}

VARIABLES
    eventBits,       \* bits set in wifi_app_event_group
    g_retry_number,  \* retries counted by the event handler
    queue,           \* contents of wifi_app_queue_handle, head first
    wifi_config,     \* station credentials held in RAM (*wifi_config)
    nvs,             \* station credentials held by the persistent store
    wifiMode,        \* radio mode last set with esp_wifi_set_mode
    drv,             \* station state of the driver
    sem,             \* wifi_reset_semaphore (binary): 1 when given
    pcReset,         \* position of wifi_reset_button_task
    pcEv,            \* position of wifi_app_event_handler
    evRead,          \* value of g_retry_number loaded by g_retry_number++
    pcTask,          \* position of wifi_app_task
    httpStarted,     \* http_server_start() has been called
    calls,           \* calls to collaborators made by the latest step
    handled,         \* message processed by the latest step, "none" otherwise
    userDiscRun,     \* history: user disconnects processed in a row (did each act?)
    fifo,            \* history: messages accepted by xQueueSend, not yet received
    sinceReset,      \* history: fast-path reconnects since the counter was zeroed
    tainted,          \* history: the task wrote the counter behind the handler's back
    suppressed,      \* history: user disconnect done, no later connect from HTTP
    wifi_connected_event_cb, \* a connected-callback is registered
    givenInDelay,   \* history: the pending semaphore give arrived during vTaskDelay
    initPending     \* history: CONNECT_INIT was sent to the monitor, no outcome since

vars == <<eventBits, g_retry_number, queue, wifi_config, nvs, wifiMode, drv, sem,
          pcReset, pcEv, evRead, pcTask, httpStarted, calls, handled, userDiscRun, fifo,
          sinceReset, tainted, suppressed, wifi_connected_event_cb, givenInDelay, initPending>>

SAVED == WIFI_APP_CONNECTING_USING_SAVED_CREDS_BIT
HTTP == WIFI_APP_CONNECTING_FROM_HTTP_SERVER_BIT
GOTIP == WIFI_APP_STA_CONNECTED_GOT_IP_BIT

Call(f, a) == [f |-> f, a |-> a]
NoArg == "-"

\* Whether a CONNECT_INIT notification is still unanswered after the calls cs.
AfterNotify(pending, cs) ==
    LET sent == {cs[i].a : i \in {j \in DOMAIN cs :
                                   cs[j].f = "http_server_monitor_send_message"}}
    IN  IF "HTTP_MSG_WIFI_CONNECT_INIT" \in sent THEN TRUE
        ELSE IF sent # {} THEN FALSE
        ELSE pending

----
\* FreeRTOS queue of QUEUE_LENGTH messages.

QueueFull(q) == Len(q) >= QUEUE_LENGTH

\* Variant: a send to a full queue overwrites the oldest message.
xQueueSend_overwrite(msgID) ==
    queue' = IF QueueFull(queue) THEN Append(Tail(queue), msgID)
             ELSE Append(queue, msgID)

\* xQueueSend(..., portMAX_DELAY): the caller waits while the queue is full,
\* then the message is copied to the back.
xQueueSend(msgID) ==
    /\ ~QueueFull(queue)
    /\ queue' = Append(queue, msgID)

\* xQueueReceive(..., portMAX_DELAY) returning msgID: the front message.
xQueueReceive(msgID) ==
    /\ queue # <<>>
    /\ Head(queue) = msgID
    /\ queue' = Tail(queue)

\* wifi_app_send_message(): fifo records the message once the queue took it.
wifi_app_send_message(msgID) ==
    /\ xQueueSend(msgID)
    /\ fifo' = Append(fifo, msgID)

\* The xQueueReceive of wifi_app_task's loop, about to switch on msgID.
TaskReceive(msgID) ==
    /\ pcTask = "recv"
    /\ xQueueReceive(msgID)
    /\ handled' = msgID
    /\ fifo' = Tail(fifo)

----
\* Persistent credential store (app_nvs).

app_nvs_load_sta_creds(stored) == stored # NoCreds
app_nvs_save_sta_creds(config) == config
app_nvs_clear_sta_creds == NoCreds

----
\* Network driver.

\* esp_wifi_connect(): starts a connection attempt when the station interface
\* is enabled and idle; fails and leaves the driver as it is when it is not.
\* The result is the set of states the driver may be in afterwards: a station
\* that is already connected either keeps its link or starts over.
esp_wifi_connect(mode, d) ==
    IF mode # "APSTA" THEN {d}
    ELSE IF d = "idle" THEN {"connecting"}
    ELSE IF d = "connected" THEN {"connected", "connecting"}
    ELSE {d}

\* esp_wifi_disconnect(): a station that is connecting or connected is torn
\* down; the driver will report WIFI_EVENT_STA_DISCONNECTED.
esp_wifi_disconnect(d) ==
    IF d \in {"connecting", "connected"} THEN "stopping" ELSE d

----
Init ==
    /\ eventBits = {}
    /\ g_retry_number = 0
    /\ queue = <<>>
    /\ wifi_config = NoCreds
    /\ nvs \in {NoCreds} \cup StoredCreds
    /\ wifiMode = "NULL"
    /\ drv = "idle"
    /\ sem = 0
    /\ pcReset = "take"
    /\ pcEv = "idle"
    /\ evRead = 0
    /\ pcTask = "init"
    /\ httpStarted = FALSE
    /\ calls = <<>>
    /\ handled = "none"
    /\ userDiscRun = <<>>
    /\ fifo = <<>>
    /\ sinceReset = 0
    /\ tainted = FALSE
    /\ suppressed = FALSE
    /\ wifi_connected_event_cb \in BOOLEAN
    /\ givenInDelay = FALSE
    /\ initPending = FALSE

Running == pcTask # "aborted"

----
\* Reset button: interrupt handler and worker task.

wifi_reset_button_isr_handler ==
    /\ Running
    /\ sem' = 1
    /\ givenInDelay' = IF sem = 0 THEN pcReset = "delay" ELSE givenInDelay
    /\ handled' = "none"
    /\ calls' = <<>>
    /\ UNCHANGED <<eventBits, g_retry_number, queue, wifi_config, nvs, wifiMode, drv,
                   pcReset, pcEv, evRead, pcTask, httpStarted, userDiscRun, fifo,
                   sinceReset, tainted, suppressed, wifi_connected_event_cb, initPending>>

ResetTake ==
    /\ Running
    /\ pcReset = "take"
    /\ sem = 1
    /\ sem' = 0
    /\ givenInDelay' = FALSE
    /\ pcReset' = "send"
    /\ handled' = "none"
    /\ calls' = <<>>
    /\ UNCHANGED <<eventBits, g_retry_number, queue, wifi_config, nvs, wifiMode, drv,
                   pcEv, evRead, pcTask, httpStarted, userDiscRun, fifo,
                   sinceReset, tainted, suppressed, wifi_connected_event_cb, initPending>>

ResetSend ==
    /\ Running
    /\ pcReset = "send"
    /\ wifi_app_send_message(WIFI_APP_MSG_USER_REQUESTED_STA_DISCONNECT)
    /\ pcReset' = "delay"
    /\ handled' = "none"
    /\ calls' = <<>>
    /\ UNCHANGED <<eventBits, g_retry_number, wifi_config, nvs, wifiMode, drv, sem,
                   pcEv, evRead, pcTask, httpStarted, userDiscRun,
                   sinceReset, tainted, suppressed, wifi_connected_event_cb, givenInDelay, initPending>>

ResetDelay ==
    /\ Running
    /\ pcReset = "delay"
    /\ pcReset' = "take"
    /\ handled' = "none"
    /\ calls' = <<>>
    /\ UNCHANGED <<eventBits, g_retry_number, queue, wifi_config, nvs, wifiMode, drv,
                   sem, pcEv, evRead, pcTask, httpStarted, userDiscRun, fifo,
                   sinceReset, tainted, suppressed, wifi_connected_event_cb, givenInDelay, initPending>>

----
\* Driver event callback, run on the event loop task.

\* Variant: the comparison lets one retry too many through.
RetryBelowCap_offByOne(r) == r <= MAX_CONNECTION_RETRIES

RetryBelowCap(r) == r < MAX_CONNECTION_RETRIES

\* WIFI_EVENT_STA_DISCONNECTED is delivered: the handler compares the counter.
EvStaDisconnected ==
    /\ Running
    /\ pcTask # "init"
    /\ pcEv = "idle"
    /\ drv \in {"connecting", "connected", "stopping"}
    /\ drv' = "idle"
    /\ pcEv' = IF RetryBelowCap(g_retry_number) THEN "connect" ELSE "send_disc"
    /\ handled' = "none"
    /\ calls' = <<>>
    /\ UNCHANGED <<eventBits, g_retry_number, queue, wifi_config, nvs, wifiMode, sem,
                   pcReset, evRead, pcTask, httpStarted, userDiscRun, fifo,
                   sinceReset, tainted, suppressed, wifi_connected_event_cb, givenInDelay, initPending>>

\* esp_wifi_connect() of the fast path.
EvReconnect ==
    /\ Running
    /\ pcEv = "connect"
    /\ drv' \in esp_wifi_connect(wifiMode, drv)
    /\ pcEv' = "inc_load"
    /\ sinceReset' = sinceReset + 1
    /\ handled' = "none"
    /\ calls' = <<Call("esp_wifi_connect", NoArg)>>
    /\ UNCHANGED <<eventBits, g_retry_number, queue, wifi_config, nvs, wifiMode, sem,
                   pcReset, evRead, pcTask, httpStarted, userDiscRun, fifo,
                   tainted, suppressed, wifi_connected_event_cb, givenInDelay, initPending>>

\* g_retry_number++ is a load followed by a store.
EvIncLoad ==
    /\ Running
    /\ pcEv = "inc_load"
    /\ evRead' = g_retry_number
    /\ pcEv' = "inc_store"
    /\ handled' = "none"
    /\ calls' = <<>>
    /\ UNCHANGED <<eventBits, g_retry_number, queue, wifi_config, nvs, wifiMode, drv,
                   sem, pcReset, pcTask, httpStarted, userDiscRun, fifo,
                   sinceReset, tainted, suppressed, wifi_connected_event_cb, givenInDelay, initPending>>

EvIncStore ==
    /\ Running
    /\ pcEv = "inc_store"
    /\ g_retry_number' = evRead + 1
    /\ evRead' = 0
    /\ pcEv' = "idle"
    /\ handled' = "none"
    /\ calls' = <<>>
    /\ UNCHANGED <<eventBits, queue, wifi_config, nvs, wifiMode, drv,
                   sem, pcReset, pcTask, httpStarted, userDiscRun, fifo,
                   sinceReset, tainted, suppressed, wifi_connected_event_cb, givenInDelay, initPending>>

EvSendDisconnected ==
    /\ Running
    /\ pcEv = "send_disc"
    /\ wifi_app_send_message(WIFI_APP_MSG_STA_DISCONNECTED)
    /\ pcEv' = "idle"
    /\ handled' = "none"
    /\ calls' = <<>>
    /\ UNCHANGED <<eventBits, g_retry_number, wifi_config, nvs, wifiMode, drv,
                   sem, pcReset, evRead, pcTask, httpStarted, userDiscRun,
                   sinceReset, tainted, suppressed, wifi_connected_event_cb, givenInDelay, initPending>>

\* IP_EVENT_STA_GOT_IP is delivered.
EvGotIp ==
    /\ Running
    /\ pcEv = "idle"
    /\ drv = "connecting"
    /\ drv' = "connected"
    /\ pcEv' = "send_gotip"
    /\ handled' = "none"
    /\ calls' = <<>>
    /\ UNCHANGED <<eventBits, g_retry_number, queue, wifi_config, nvs, wifiMode,
                   sem, pcReset, evRead, pcTask, httpStarted, userDiscRun, fifo,
                   sinceReset, tainted, suppressed, wifi_connected_event_cb, givenInDelay, initPending>>

\* Variant: the event handler sets the connected bit itself.
EvSendGotIp_setsBit ==
    /\ Running
    /\ pcEv = "send_gotip"
    /\ wifi_app_send_message(WIFI_APP_MSG_STA_CONNECTED_GOT_IP)
    /\ eventBits' = eventBits \cup {GOTIP}
    /\ pcEv' = "idle"
    /\ handled' = "none"
    /\ calls' = <<>>
    /\ UNCHANGED <<g_retry_number, wifi_config, nvs, wifiMode, drv,
                   sem, pcReset, evRead, pcTask, httpStarted, userDiscRun,
                   sinceReset, tainted, suppressed, wifi_connected_event_cb, givenInDelay, initPending>>

EvSendGotIp ==
    /\ Running
    /\ pcEv = "send_gotip"
    /\ wifi_app_send_message(WIFI_APP_MSG_STA_CONNECTED_GOT_IP)
    /\ pcEv' = "idle"
    /\ handled' = "none"
    /\ calls' = <<>>
    /\ UNCHANGED <<eventBits, g_retry_number, wifi_config, nvs, wifiMode, drv,
                   sem, pcReset, evRead, pcTask, httpStarted, userDiscRun,
                   sinceReset, tainted, suppressed, wifi_connected_event_cb, givenInDelay, initPending>>

----
\* wifi_app_task: start-up, then one action per message received.

\* Event handler registration, driver initialisation, soft-AP configuration
\* (esp_wifi_set_mode(WIFI_MODE_APSTA)) and esp_wifi_start().
TaskInit ==
    /\ pcTask = "init"
    /\ wifiMode' = "APSTA"
    /\ pcTask' = "send_load"
    /\ handled' = "none"
    /\ calls' = <<Call("esp_wifi_set_mode", "APSTA"), Call("esp_wifi_start", NoArg)>>
    /\ UNCHANGED <<eventBits, g_retry_number, queue, wifi_config, nvs, drv, sem,
                   pcReset, pcEv, evRead, httpStarted, userDiscRun, fifo,
                   sinceReset, tainted, suppressed, wifi_connected_event_cb, givenInDelay, initPending>>

TaskSendLoad ==
    /\ pcTask = "send_load"
    /\ wifi_app_send_message(WIFI_APP_MSG_LOAD_SAVED_CREDENTIALS)
    /\ pcTask' = "recv"
    /\ handled' = "none"
    /\ calls' = <<>>
    /\ UNCHANGED <<eventBits, g_retry_number, wifi_config, nvs, wifiMode, drv, sem,
                   pcReset, pcEv, evRead, httpStarted, userDiscRun,
                   sinceReset, tainted, suppressed, wifi_connected_event_cb, givenInDelay, initPending>>

\* wifi_app_connect_sta(): both driver calls are wrapped in ESP_ERROR_CHECK,
\* which aborts when the station interface is not enabled.
ConnectStaOk(mode) == mode = "APSTA"

MsgLoadSavedCredentials ==
    /\ TaskReceive(WIFI_APP_MSG_LOAD_SAVED_CREDENTIALS)
    /\ userDiscRun' = <<>>
    /\ IF app_nvs_load_sta_creds(nvs)
       THEN /\ wifi_config' = nvs
            /\ IF ConnectStaOk(wifiMode)
               THEN /\ drv' \in esp_wifi_connect(wifiMode, drv)
                    /\ eventBits' = eventBits \cup {SAVED}
                    /\ pcTask' = "send_http"
                    /\ calls' = <<Call("app_nvs_load_sta_creds", NoArg),
                                  Call("esp_wifi_set_config", nvs),
                                  Call("esp_wifi_connect", NoArg)>>
               ELSE /\ pcTask' = "aborted"
                    /\ calls' = <<Call("app_nvs_load_sta_creds", NoArg),
                                  Call("esp_wifi_set_config", nvs)>>
                    /\ UNCHANGED <<drv, eventBits>>
       ELSE /\ pcTask' = "send_http"
            /\ calls' = <<Call("app_nvs_load_sta_creds", NoArg)>>
            /\ UNCHANGED <<wifi_config, drv, eventBits>>
    /\ UNCHANGED <<g_retry_number, nvs, wifiMode, sem, pcReset, pcEv, evRead,
                   httpStarted, sinceReset, tainted, suppressed,
                   wifi_connected_event_cb, givenInDelay>>
    /\ initPending' = AfterNotify(initPending, calls')

\* wifi_app_send_message(WIFI_APP_MSG_START_HTTP_SERVER) closing the handler above.
TaskSendStartHttp ==
    /\ pcTask = "send_http"
    /\ wifi_app_send_message(WIFI_APP_MSG_START_HTTP_SERVER)
    /\ pcTask' = "recv"
    /\ handled' = "none"
    /\ calls' = <<>>
    /\ UNCHANGED <<eventBits, g_retry_number, wifi_config, nvs, wifiMode, drv, sem,
                   pcReset, pcEv, evRead, httpStarted, userDiscRun,
                   sinceReset, tainted, suppressed, wifi_connected_event_cb, givenInDelay, initPending>>

MsgStartHttpServer ==
    /\ TaskReceive(WIFI_APP_MSG_START_HTTP_SERVER)
    /\ userDiscRun' = <<>>
    /\ httpStarted' = TRUE
    /\ calls' = <<Call("http_server_start", NoArg),
                  Call("rgb_led_http_server_started", NoArg)>>
    /\ UNCHANGED <<eventBits, g_retry_number, wifi_config, nvs, wifiMode, drv, sem,
                   pcReset, pcEv, evRead, pcTask,
                   sinceReset, tainted, suppressed, wifi_connected_event_cb, givenInDelay>>
    /\ initPending' = AfterNotify(initPending, calls')

MsgConnectingFromHttpServer ==
    /\ TaskReceive(WIFI_APP_MSG_CONNECTING_FROM_HTTP_SERVER)
    /\ userDiscRun' = <<>>
    /\ eventBits' = eventBits \cup {HTTP}
    /\ suppressed' = FALSE
    /\ IF ConnectStaOk(wifiMode)
       THEN /\ drv' \in esp_wifi_connect(wifiMode, drv)
            /\ g_retry_number' = 0
            /\ sinceReset' = 0
            /\ tainted' = (pcEv \in {"inc_load", "inc_store", "send_disc"})
            /\ calls' = <<Call("esp_wifi_set_config", wifi_config),
                          Call("esp_wifi_connect", NoArg),
                          Call("http_server_monitor_send_message",
                               "HTTP_MSG_WIFI_CONNECT_INIT")>>
            /\ UNCHANGED pcTask
       ELSE /\ pcTask' = "aborted"
            /\ calls' = <<Call("esp_wifi_set_config", wifi_config)>>
            /\ UNCHANGED <<drv, g_retry_number, sinceReset, tainted>>
    /\ UNCHANGED <<wifi_config, nvs, wifiMode, sem, pcReset, pcEv, evRead,
                   httpStarted, wifi_connected_event_cb, givenInDelay>>
    /\ initPending' = AfterNotify(initPending, calls')

\* handle_wifi_connected(): every test reads the snapshot `bits` taken on entry.
SavesOnConnected(bits) == SAVED \notin bits

\* Variant: the connected bit is set, the config-service bit is left alone.
ConnectedBits_keepsHttp(bits) == (bits \cup {GOTIP}) \ {SAVED}

ConnectedBits(bits) == (bits \cup {GOTIP}) \ {SAVED, HTTP}

handle_wifi_connected ==
    /\ eventBits' = ConnectedBits(eventBits)
    /\ nvs' = IF SavesOnConnected(eventBits)
              THEN app_nvs_save_sta_creds(wifi_config) ELSE nvs
    /\ calls' = <<Call("rgb_led_wifi_connected", NoArg),
                  Call("http_server_monitor_send_message",
                       "HTTP_MSG_WIFI_CONNECT_SUCCESS")>>
                \o (IF SavesOnConnected(eventBits)
                    THEN <<Call("app_nvs_save_sta_creds", wifi_config)>> ELSE <<>>)
                \o (IF wifi_connected_event_cb
                    THEN <<Call("wifi_connected_event_cb", NoArg)>> ELSE <<>>)

MsgStaConnectedGotIp ==
    /\ TaskReceive(WIFI_APP_MSG_STA_CONNECTED_GOT_IP)
    /\ userDiscRun' = <<>>
    /\ handle_wifi_connected
    /\ UNCHANGED <<g_retry_number, wifi_config, wifiMode, drv, sem, pcReset, pcEv,
                   evRead, pcTask, httpStarted,
                   sinceReset, tainted, suppressed, wifi_connected_event_cb, givenInDelay>>
    /\ initPending' = AfterNotify(initPending, calls')

\* Variant: the disconnect is carried out whatever the connected bit says.
UserDisconnectActs_always(bits) == TRUE

\* The guard of the user-requested disconnect.
UserDisconnectActs(bits) == GOTIP \in bits

\* Variant: the connected bit is left set.
UserDisconnectBits_keepsGotIp(bits) == bits

\* xEventGroupClearBits closing the user-requested disconnect.
UserDisconnectBits(bits) == bits \ {GOTIP}

\* The run of user disconnects, keeping the first and the latest.
RunAfter(run, acted) == IF run = <<>> THEN <<acted>> ELSE <<run[1], acted>>

MsgUserRequestedStaDisconnect ==
    /\ TaskReceive(WIFI_APP_MSG_USER_REQUESTED_STA_DISCONNECT)
    /\ IF UserDisconnectActs(eventBits)
       THEN /\ g_retry_number' = MAX_CONNECTION_RETRIES
            /\ drv' = esp_wifi_disconnect(drv)
            /\ nvs' = app_nvs_clear_sta_creds
            /\ wifiMode' = "AP"
            /\ eventBits' = UserDisconnectBits(eventBits)
            /\ calls' = <<Call("esp_wifi_disconnect", NoArg),
                          Call("app_nvs_clear_sta_creds", NoArg),
                          Call("esp_wifi_set_mode", "AP"),
                          Call("rgb_led_http_server_started", NoArg),
                          Call("http_server_monitor_send_message",
                               "HTTP_MSG_WIFI_USER_DISCONNECT")>>
            /\ tainted' = TRUE
            /\ suppressed' = TRUE
            /\ userDiscRun' = RunAfter(userDiscRun, TRUE)
       ELSE /\ calls' = <<>>
            /\ userDiscRun' = RunAfter(userDiscRun, FALSE)
            /\ UNCHANGED <<g_retry_number, drv, nvs, wifiMode, eventBits,
                           tainted, suppressed>>
    /\ UNCHANGED <<wifi_config, sem, pcReset, pcEv, evRead, pcTask, httpStarted,
                   sinceReset, wifi_connected_event_cb, givenInDelay>>
    /\ initPending' = AfterNotify(initPending, calls')

\* Variant: the connected bit survives the disconnect.
DisconnectedBits_keepsGotIp(bits) ==
    IF SAVED \in bits THEN bits \ {SAVED}
    ELSE IF HTTP \in bits THEN bits \ {HTTP}
    ELSE bits

\* handle_wifi_disconnected(): every test reads the snapshot `bits` taken on entry.
DisconnectedBits(bits) ==
    (IF SAVED \in bits THEN bits \ {SAVED}
     ELSE IF HTTP \in bits THEN bits \ {HTTP}
     ELSE bits) \ {GOTIP}

\* Variant: the failed saved credentials stay in the store.
ClearsOnDisconnected_never(bits) == FALSE

ClearsOnDisconnected(bits) == SAVED \in bits

\* Variant: two independent tests instead of if / else if.
DisconnectedCalls_bothBranches(bits) ==
    (IF SAVED \in bits THEN <<Call("app_nvs_clear_sta_creds", NoArg)>> ELSE <<>>)
    \o (IF HTTP \in bits
        THEN <<Call("http_server_monitor_send_message", "HTTP_MSG_WIFI_CONNECT_FAIL")>>
        ELSE <<>>)

\* The collaborator calls of the branch taken.
DisconnectedCalls(bits) ==
    IF SAVED \in bits
    THEN <<Call("app_nvs_clear_sta_creds", NoArg)>>
    ELSE IF HTTP \in bits
    THEN <<Call("http_server_monitor_send_message", "HTTP_MSG_WIFI_CONNECT_FAIL")>>
    ELSE <<>>

handle_wifi_disconnected ==
    /\ eventBits' = DisconnectedBits(eventBits)
    /\ nvs' = IF ClearsOnDisconnected(eventBits) THEN app_nvs_clear_sta_creds ELSE nvs
    /\ calls' = DisconnectedCalls(eventBits)

MsgStaDisconnected ==
    /\ TaskReceive(WIFI_APP_MSG_STA_DISCONNECTED)
    /\ userDiscRun' = <<>>
    /\ handle_wifi_disconnected
    /\ UNCHANGED <<g_retry_number, wifi_config, wifiMode, drv, sem, pcReset, pcEv,
                   evRead, pcTask, httpStarted,
                   sinceReset, tainted, suppressed, wifi_connected_event_cb, givenInDelay>>
    /\ initPending' = AfterNotify(initPending, calls')

----
\* Configuration service: once started it writes new credentials through
\* wifi_app_get_wifi_config() and sends WIFI_APP_MSG_CONNECTING_FROM_HTTP_SERVER.
HttpConnect ==
    /\ Running
    /\ httpStarted
    /\ wifi_config' \in SubmittedCreds
    /\ wifi_app_send_message(WIFI_APP_MSG_CONNECTING_FROM_HTTP_SERVER)
    /\ handled' = "none"
    /\ calls' = <<>>
    /\ UNCHANGED <<eventBits, g_retry_number, nvs, wifiMode, drv, sem, pcReset,
                   pcEv, evRead, pcTask, httpStarted, userDiscRun,
                   sinceReset, tainted, suppressed, wifi_connected_event_cb, givenInDelay, initPending>>

----
Next ==
    \/ wifi_reset_button_isr_handler
    \/ ResetTake
    \/ ResetSend
    \/ ResetDelay
    \/ EvStaDisconnected
    \/ EvReconnect
    \/ EvIncLoad
    \/ EvIncStore
    \/ EvSendDisconnected
    \/ EvGotIp
    \/ EvSendGotIp
    \/ TaskInit
    \/ TaskSendLoad
    \/ MsgLoadSavedCredentials
    \/ TaskSendStartHttp
    \/ MsgStartHttpServer
    \/ MsgConnectingFromHttpServer
    \/ MsgStaConnectedGotIp
    \/ MsgUserRequestedStaDisconnect
    \/ MsgStaDisconnected
    \/ HttpConnect

Spec == Init /\ [][Next]_vars

----
\* Vocabulary of the properties.

Called(f) == \E i \in DOMAIN calls : calls[i].f = f
CalledWith(f, a) == \E i \in DOMAIN calls : calls[i] = Call(f, a)

UsingSavedCredentials == SAVED \in eventBits
InitiatedFromConfigService == HTTP \in eventBits
ConnectedWithIp == GOTIP \in eventBits

\* C1: UsingSavedCredentials and InitiatedFromConfigService are never both set.
C1_AtMostOneOrigin == ~(UsingSavedCredentials /\ InitiatedFromConfigService)

\* C2: when the event handler escalates a disconnect, it has issued exactly
\* MAX_CONNECTION_RETRIES fast-path reconnects since the counter was zeroed.
C2_ExactlyMaxReconnects ==
    pcEv = "send_disc" => sinceReset = MAX_CONNECTION_RETRIES

\* C2 (amended): never more than MAX_CONNECTION_RETRIES fast-path reconnects
\* follow a zeroing of the counter, and an escalation comes after exactly that
\* many unless the task wrote the counter behind the handler's back (forced it
\* to the cap on a user disconnect, or zeroed it while the handler was past its
\* reconnect command or its decision to escalate).
C2_AtMostMaxAndExactWhenUntouched ==
    /\ sinceReset <= MAX_CONNECTION_RETRIES
    /\ (pcEv = "send_disc" /\ ~tainted) => sinceReset = MAX_CONNECTION_RETRIES

C2_Witness ==
    pcEv = "send_disc" /\ ~tainted /\ sinceReset = MAX_CONNECTION_RETRIES

\* C3: on STA_CONNECTED_GOT_IP the credentials are saved if and only if the
\* connection was initiated from the configuration service.
C3_SaveIffFromConfigService ==
    [][handled' = WIFI_APP_MSG_STA_CONNECTED_GOT_IP
         => (Called("app_nvs_save_sta_creds")' <=> InitiatedFromConfigService)]_vars

C5_UserDisconnectNoOp ==
    [][(handled' = WIFI_APP_MSG_USER_REQUESTED_STA_DISCONNECT /\ ~ConnectedWithIp)
         => /\ UNCHANGED <<eventBits, wifi_config, nvs, wifiMode, g_retry_number, drv>>
            /\ calls' = <<>>]_vars

C5_Witness ==
    /\ handled = WIFI_APP_MSG_USER_REQUESTED_STA_DISCONNECT
    /\ userDiscRun = <<FALSE>>
    /\ UsingSavedCredentials

\* C6: STA_DISCONNECTED processed while UsingSavedCredentials is set leaves the
\* store cleared and the flag clear, so that loading from the store finds no
\* credentials; and LOAD_SAVED_CREDENTIALS that finds none issues no connect.
C6_SavedCredentialFailureClearsStore ==
    [][/\ (handled' = WIFI_APP_MSG_STA_DISCONNECTED /\ UsingSavedCredentials)
            => /\ nvs' = NoCreds
               /\ ~UsingSavedCredentials'
               /\ ~app_nvs_load_sta_creds(nvs')
       /\ (handled' = WIFI_APP_MSG_LOAD_SAVED_CREDENTIALS /\ nvs = NoCreds)
            => /\ ~Called("esp_wifi_connect")'
               /\ ~UsingSavedCredentials'
               /\ drv' = drv]_vars

C6_Witness ==
    /\ handled = WIFI_APP_MSG_STA_DISCONNECTED
    /\ CalledWith("app_nvs_clear_sta_creds", NoArg)
    /\ nvs = NoCreds
    /\ ~UsingSavedCredentials

\* C7: after a user disconnect that acted, and until CONNECTING_FROM_HTTP_SERVER
\* is processed, the event handler issues no fast-path reconnect and escalates
\* every station disconnect it is given.
C7_NoReconnectWhileSuppressed ==
    [][suppressed
         => /\ ~(pcEv = "connect" /\ pcEv' = "inc_load")
            /\ ~(pcEv = "idle" /\ pcEv' = "connect")]_vars

\* C8: the user disconnect processed while ConnectedWithIp is set issues the
\* driver disconnect, clears the store, sets the radio to access-point-only,
\* notifies the monitor of the user disconnect and leaves ConnectedWithIp clear.
C8_UserDisconnectWhenConnected ==
    [][(handled' = WIFI_APP_MSG_USER_REQUESTED_STA_DISCONNECT /\ ConnectedWithIp)
         => /\ CalledWith("esp_wifi_disconnect", NoArg)'
            /\ CalledWith("app_nvs_clear_sta_creds", NoArg)'
            /\ CalledWith("esp_wifi_set_mode", "AP")'
            /\ CalledWith("http_server_monitor_send_message",
                          "HTTP_MSG_WIFI_USER_DISCONNECT")'
            /\ wifiMode' = "AP"
            /\ ~ConnectedWithIp']_vars

C8_Witness ==
    /\ handled = WIFI_APP_MSG_USER_REQUESTED_STA_DISCONNECT
    /\ CalledWith("esp_wifi_disconnect", NoArg)
    /\ wifiMode = "AP"
    /\ ~ConnectedWithIp

\* C9: the queue never holds more than QUEUE_LENGTH messages; the messages
\* accepted and not yet received are exactly the queue's contents, in order;
\* the task receives the oldest of them; and a sender facing a full queue
\* keeps its message and waits.
C9_BoundedFifoBlocking ==
    /\ [](Len(queue) <= QUEUE_LENGTH /\ queue = fifo)
    /\ [][/\ handled' # "none" => (fifo # <<>> /\ handled' = Head(fifo))
          /\ QueueFull(queue)
               => /\ Len(fifo') <= Len(fifo)
                  /\ pcReset = "send" => pcReset' = "send"
                  /\ pcEv \in {"send_disc", "send_gotip"} => pcEv' = pcEv
                  /\ pcTask \in {"send_load", "send_http"} => pcTask' = pcTask]_vars

C9_Witness ==
    /\ Len(queue) = QUEUE_LENGTH
    /\ pcReset = "send"
    /\ pcEv = "send_gotip"
    /\ queue[1] # queue[2]

\* C10: a user disconnect processed right after another one changes nothing
\* and calls nothing.
C10_UserDisconnectIdempotent ==
    [][(handled' = WIFI_APP_MSG_USER_REQUESTED_STA_DISCONNECT /\ userDiscRun # <<>>)
         => /\ UNCHANGED <<eventBits, nvs, wifiMode, g_retry_number>>
            /\ calls' = <<>>]_vars

C10_Witness ==
    /\ handled = WIFI_APP_MSG_USER_REQUESTED_STA_DISCONNECT
    /\ userDiscRun = <<TRUE, FALSE>>

\* C11: STA_DISCONNECTED resolves to exactly one of three outcomes: the saved
\* credentials failed (flag cleared, store cleared), the attempt from the
\* configuration service failed (flag cleared, monitor told), or an unexpected
\* loss (nothing but the log); ConnectedWithIp is clear afterwards in all three.
SavedCredsFailed ==
    /\ UsingSavedCredentials
    /\ ~UsingSavedCredentials'
    /\ calls' = <<Call("app_nvs_clear_sta_creds", NoArg)>>

ConfigServiceFailed ==
    /\ InitiatedFromConfigService
    /\ ~InitiatedFromConfigService'
    /\ calls' = <<Call("http_server_monitor_send_message", "HTTP_MSG_WIFI_CONNECT_FAIL")>>

UnexpectedLoss ==
    /\ ~UsingSavedCredentials /\ ~InitiatedFromConfigService
    /\ ~UsingSavedCredentials' /\ ~InitiatedFromConfigService'
    /\ calls' = <<>>

C11_ExactlyOneOutcome ==
    [][handled' = WIFI_APP_MSG_STA_DISCONNECTED
         => /\ \/ (SavedCredsFailed /\ ~ConfigServiceFailed /\ ~UnexpectedLoss)
               \/ (~SavedCredsFailed /\ ConfigServiceFailed /\ ~UnexpectedLoss)
               \/ (~SavedCredsFailed /\ ~ConfigServiceFailed /\ UnexpectedLoss)
            /\ ~ConnectedWithIp']_vars

C11_Witness ==
    /\ handled = WIFI_APP_MSG_STA_DISCONNECTED
    /\ calls = <<Call("http_server_monitor_send_message", "HTTP_MSG_WIFI_CONNECT_FAIL")>>
    /\ ~InitiatedFromConfigService
    /\ ~ConnectedWithIp

\* C12: the steps of the event handler, of the reset interrupt and worker and
\* of wifi_app_send_message leave the three flags and the store as they are.
C12_FlagsAndStoreOwnedByTask ==
    [][(pcEv' # pcEv \/ sem' # sem \/ pcReset' # pcReset \/ Len(queue') > Len(queue))
         => UNCHANGED <<eventBits, nvs>>]_vars

C12_Witness ==
    /\ pcEv = "inc_store"
    /\ pcReset = "delay"
    /\ Len(queue) = QUEUE_LENGTH
    /\ ConnectedWithIp
    /\ nvs \in SubmittedCreds

NumCalls(f) == Cardinality({i \in DOMAIN calls : calls[i].f = f})

\* The effects of the LOAD_SAVED_CREDENTIALS handler up to its closing send.
LoadHandlerEffects ==
    [][handled' = WIFI_APP_MSG_LOAD_SAVED_CREDENTIALS
         => /\ pcTask' = "send_http"
            /\ IF nvs = NoCreds
               THEN ~Called("esp_wifi_connect")' /\ eventBits' = {}
               ELSE /\ NumCalls("esp_wifi_connect")' = 1
                    /\ CalledWith("esp_wifi_set_config", nvs)'
                    /\ eventBits' = {SAVED}]_vars

\* The closing send appends exactly one START_HTTP_SERVER.
LoadHandlerSendsOnce ==
    [][(pcTask = "send_http" /\ pcTask' # pcTask)
         => /\ pcTask' = "recv"
            /\ queue' = Append(queue, WIFI_APP_MSG_START_HTTP_SERVER)]_vars

\* C13: processing LOAD_SAVED_CREDENTIALS always enqueues exactly one
\* START_HTTP_SERVER (its closing send never finds the queue full, which only
\* the task itself could empty); without stored credentials it issues no
\* connect and leaves the flags clear, with them it issues one connect with
\* them and sets UsingSavedCredentials only.
C13_LoadSavedCredentials ==
    /\ LoadHandlerEffects
    /\ LoadHandlerSendsOnce
    /\ [](pcTask = "send_http" => ~QueueFull(queue))

\* C17: the task never waits in wifi_app_send_message on its own full queue,
\* neither for LOAD_SAVED_CREDENTIALS nor for START_HTTP_SERVER (a wait that
\* cannot end, the task being the only receiver).
C17_TaskNeverBlockedOnOwnQueue ==
    ~(pcTask \in {"send_load", "send_http"} /\ QueueFull(queue))

\* C14: the retry counter stays within 0 .. MAX_CONNECTION_RETRIES in every
\* reachable state, however the event handler's test, reconnect and increment
\* interleave with the task's writes of 0 and MAX_CONNECTION_RETRIES.
C14_RetryCounterInRange ==
    /\ 0 <= g_retry_number
    /\ g_retry_number <= MAX_CONNECTION_RETRIES

\* C15: processing STA_CONNECTED_GOT_IP sets the connected bit, clears both
\* origin bits, sends CONNECT_SUCCESS to the monitor and calls the registered
\* callback exactly once (not at all when none is registered); the save
\* decision is taken on the bits as they were when the handler started.
C15_ConnectedGotIpEffects ==
    [][handled' = WIFI_APP_MSG_STA_CONNECTED_GOT_IP
         => /\ ConnectedWithIp'
            /\ ~UsingSavedCredentials' /\ ~InitiatedFromConfigService'
            /\ NumCalls("http_server_monitor_send_message")' = 1
            /\ CalledWith("http_server_monitor_send_message",
                          "HTTP_MSG_WIFI_CONNECT_SUCCESS")'
            /\ NumCalls("wifi_connected_event_cb")'
                 = (IF wifi_connected_event_cb THEN 1 ELSE 0)
            /\ Called("app_nvs_save_sta_creds")' <=> ~UsingSavedCredentials]_vars

\* A got-IP message was handled with the saved-credentials bit set beforehand
\* (nothing was saved, the origin bits are clear now) and a callback registered.
C15_Witness ==
    /\ handled = WIFI_APP_MSG_STA_CONNECTED_GOT_IP
    /\ wifi_connected_event_cb
    /\ Called("wifi_connected_event_cb")
    /\ ~Called("app_nvs_save_sta_creds")
    /\ eventBits = {GOTIP}

\* The interrupt handler gives the semaphore and leaves the queue alone.
IsrOnlySignals ==
    [][sem' > sem => /\ queue' = queue
                     /\ UNCHANGED <<pcReset, eventBits, nvs>>]_vars

\* Each wake of the worker consumes one give and sends one message.
OneMessagePerWake ==
    /\ [][(pcReset = "take" /\ pcReset' # pcReset)
            => sem = 1 /\ sem' = 0 /\ pcReset' = "send" /\ queue' = queue]_vars
    /\ [][(pcReset = "send" /\ pcReset' # pcReset)
            => /\ pcReset' = "delay"
               /\ queue' = Append(queue,
                                  WIFI_APP_MSG_USER_REQUESTED_STA_DISCONNECT)]_vars
    /\ [][(pcReset = "delay" /\ pcReset' # pcReset)
            => pcReset' = "take" /\ queue' = queue]_vars

\* C16: the interrupt handler only gives the semaphore, the worker sends one
\* USER_REQUESTED_STA_DISCONNECT per wake, and a give that arrives during the
\* worker's debounce delay is absorbed: it never wakes the worker (and so
\* sends no further message) once the delay is over.
C16_DebounceAbsorbsSignals ==
    /\ IsrOnlySignals
    /\ OneMessagePerWake
    /\ [][(pcReset = "take" /\ pcReset' = "send") => ~givenInDelay]_vars

\* A step that issues a connect command: wifi_app_connect_sta() (which opens
\* with esp_wifi_set_config) or the event handler's esp_wifi_connect().
ConnectCommandIssued ==
    Called("esp_wifi_connect")' \/ Called("esp_wifi_set_config")'

\* C18: whenever a connect command is issued, by the task on
\* LOAD_SAVED_CREDENTIALS or CONNECTING_FROM_HTTP_SERVER or by the event
\* handler's reconnect, the radio is in AP+STA mode; in particular when
\* CONNECTING_FROM_HTTP_SERVER is handled after a user-requested disconnect.
C18_ConnectOnlyInApSta ==
    [][ConnectCommandIssued => wifiMode = "APSTA"]_vars

\* C19: from a user-requested disconnect handled while connected until the
\* next CONNECTING_FROM_HTTP_SERVER is handled, the store stays cleared and
\* the connected bit stays clear, whatever was queued behind the disconnect;
\* the connected bit is never set while the radio is in AP-only mode.
C19_UserDisconnectHolds ==
    /\ suppressed => (nvs = NoCreds /\ ~ConnectedWithIp)
    /\ wifiMode = "AP" => ~ConnectedWithIp

\* Nothing is queued, running or outstanding at the driver: only a new button
\* press or a new submission from the configuration service can cause a step.
Quiescent ==
    /\ pcTask = "recv" /\ queue = <<>>
    /\ pcEv = "idle" /\ drv = "idle"
    /\ pcReset = "take" /\ sem = 0

\* C20: every CONNECT_INIT sent to the monitor is followed by CONNECT_SUCCESS,
\* CONNECT_FAIL or USER_DISCONNECT, and the config-service bit does not stay
\* set: once the driver has answered and everything queued has been handled
\* (no user disconnect having intervened), neither is outstanding.
C20_ConnectInitiatedResolved ==
    (Quiescent /\ wifiMode = "APSTA")
        => (~initPending /\ ~InitiatedFromConfigService)

====
